---- MODULE Spec2Model ----
(***************************************************************************)
(* Co-signing of contracts over an append-only relay log (djinoz/cosigner). *)
(* The model follows ContractManager (createContract, getContractState,     *)
(* processContractEvents, signContract, detectForks, resolveForks) and the  *)
(* part of NostrClient that decides which records a reduction sees          *)
(* (fetchContractEvents, fetchUserContracts, publishContractEvent).         *)
(*                                                                          *)
(* Modelling decisions:                                                     *)
(*  - The relay is a set of events.  An event id is the hash of the event's *)
(*    fields, so an event stands for its own id and publishing the same     *)
(*    event twice stores it once.                                           *)
(*  - The relay delivers the events that match a filter newest first; the   *)
(*    order among events of equal created_at is not determined.  The code's *)
(*    operators are functions of the delivered array (a stable sort on      *)
(*    created_at followed by [0], the insertion order of a Map), so a fetch *)
(*    is the set of arrays some delivery order produces.                    *)
(*  - All clients share one clock, in seconds.  A fetch keeps its relay     *)
(*    subscription open for 10 s before it returns, so two consecutive      *)
(*    fetches of one client return at strictly increasing clock values      *)
(*    (variable fresh).                                                     *)
(*  - JSON.stringify / JSON.parse of a ContractEvent is the record itself.  *)
(***************************************************************************)
EXTENDS Integers, Sequences, FiniteSets, TLC

\* ------------------------------------------------------------------ bounds
MaxTime == 4
MaxStore == 4
MaxCreates == 1
MaxRunning == 2
MaxSubscriptions == 3

\* ------------------------------------------------------------------ values
\* the clients' public keys; D only ever reads
Pubkeys == {"A", "B", "C", "D"}
Actors == {"A", "B", "C"}
NoKey == "none"
Texts == {"T1"}
Title == "Deal"
SignatorySets == {{"A", "B"}}
RequiredCounts == {2}
Authors == {"A"}

\* generateContractId: the SHA-256 hex digest of the text, an injective
\* function of the text
generateContractId(text) == <<"sha256", text>>

ContractIds == {generateContractId(t) : t \in Texts}

\* title.toLowerCase().replace(/[^a-z0-9]+/g, '-')
uniqueIdentifier(title) == <<"slug", title>>

\* --------------------------------------------------------- array helpers
Range(s) == {s[i] : i \in DOMAIN s}

SignerSet(sigs) == {sigs[i].pubkey : i \in DOMAIN sigs}

Newest(E) == {e \in E : \A f \in E : f.created_at <= e.created_at}

\* the relay delivers the stored events that match a filter newest first;
\* the order among events of equal created_at is not determined
RECURSIVE Deliveries(_)
Deliveries(E) ==
  IF E = {} THEN {<<>>}
  ELSE UNION {{<<e>> \o s : s \in Deliveries(E \ {e})} : e \in Newest(E)}

\* events.sort((a, b) => b.created_at - a.created_at): a stable sort
InsertDesc(acc, e) ==
  LET k == Cardinality({i \in DOMAIN acc : acc[i].created_at >= e.created_at})
  IN SubSeq(acc, 1, k) \o <<e>> \o SubSeq(acc, k + 1, Len(acc))

RECURSIVE SortDescInto(_, _)
SortDescInto(events, acc) ==
  IF events = <<>> THEN acc
  ELSE SortDescInto(Tail(events), InsertDesc(acc, Head(events)))

sortNewestFirst(events) == SortDescInto(events, <<>>)

\* faulty variant of firstOldest: the first event delivered, the newest
firstDelivered(events) == events[1]

\* events.sort((a, b) => a.created_at - b.created_at)[0]: the first of the
\* events with the least created_at
firstOldest(events) ==
  LET i0 == CHOOSE i \in DOMAIN events :
              /\ \A j \in DOMAIN events : events[i].created_at <= events[j].created_at
              /\ \A j \in 1..(i - 1) : events[j].created_at > events[i].created_at
  IN events[i0]

\* a Map as the sequence of its entries in insertion order
MapHas(m, k) == \E i \in DOMAIN m : m[i].key = k

MapIndex(m, k) == CHOOSE i \in DOMAIN m : m[i].key = k

MapGet(m, k) == m[MapIndex(m, k)].val

MapSet(m, k, v) ==
  IF MapHas(m, k) THEN [m EXCEPT ![MapIndex(m, k)] = [key |-> k, val |-> v]]
  ELSE Append(m, [key |-> k, val |-> v])

MapValues(m) == [i \in DOMAIN m |-> m[i].val]

\* ---------------------------------------------------------------- fetching
\* the relay's answer to fetchUserContracts' author and #p filters
UserEvents(S, u) == {e \in S : e.pubkey = u \/ u \in e.tags.p}

\* faulty variant of replacesKept: an event as new as the kept one replaces it
replacesKeptOrEqual(kept, event) == kept.created_at <= event.created_at

\* fetchUserContracts keeps an event when its contract id is new or when it
\* is newer than the one kept
replacesKept(kept, event) == kept.created_at < event.created_at

RECURSIVE groupByContract(_, _)
groupByContract(events, contractMap) ==
  IF events = <<>> THEN contractMap
  ELSE LET event == Head(events)
           id == event.tags.contract
       IN groupByContract(Tail(events),
            IF ~MapHas(contractMap, id) \/ replacesKept(MapGet(contractMap, id), event)
            THEN MapSet(contractMap, id, event)
            ELSE contractMap)

\* fetchUserContracts on the delivered events: one event per contract id
fetchUserContracts(delivered) == MapValues(groupByContract(delivered, <<>>))

\* faulty variant of fetchByContractTag: the filter matches any contract tag
fetchByAnyContractTag(S, c) == S

\* the relay's answer to the #contract filter
fetchByContractTag(S, c) == {e \in S : e.tags.contract = c}

matchingContracts(userContracts, c) ==
  SelectSeq(userContracts, LAMBDA e : e.content.contract_id = c)

\* faulty variant of fetchContractEvents: the #contract filter for everyone
fetchContractEventsByTag(S, u, c) == Deliveries(fetchByContractTag(S, c))

\* fetchContractEvents: every array it can return for the stored events S,
\* the client's pubkey u and the contract id c
fetchContractEvents(S, u, c) ==
  IF u = NoKey THEN Deliveries(fetchByContractTag(S, c))
  ELSE UNION {LET matching == matchingContracts(fetchUserContracts(d), c)
              IN IF Len(matching) > 0 THEN {matching}
                 ELSE Deliveries(fetchByContractTag(S, c))
              : d \in Deliveries(UserEvents(S, u))}

\* ------------------------------------------------------------ fork detection
\* `${s.pubkey}:${s.timestamp}`
SigKey(s) == <<s.pubkey, s.timestamp>>

\* faulty variant of signaturesKey: the timestamps are left out of the key
signaturesKeyByPubkey(sigs) ==
  LET ks == {sigs[i].pubkey : i \in DOMAIN sigs}
  IN [k \in ks |-> Cardinality({i \in DOMAIN sigs : sigs[i].pubkey = k})]

\* faulty variant of signaturesKey: the keys are joined in the order of the list
signaturesKeyUnsorted(sigs) == [i \in DOMAIN sigs |-> SigKey(sigs[i])]

\* signatures.map(...).sort().join('|'): the multiset of the keys
signaturesKey(sigs) ==
  LET ks == {SigKey(sigs[i]) : i \in DOMAIN sigs}
  IN [k \in ks |-> Cardinality({i \in DOMAIN sigs : SigKey(sigs[i]) = k})]

ForkOf(e) ==
  [eventId |-> e, signatures |-> e.content.signatures, timestamp |-> e.created_at]

\* detectForks, step 2: the events with the right contract id, grouped by
\* their signatures key
RECURSIVE groupBySignatures(_, _, _)
groupBySignatures(events, c, signatureSets) ==
  IF events = <<>> THEN signatureSets
  ELSE LET event == Head(events)
           key == signaturesKey(event.content.signatures)
       IN groupBySignatures(Tail(events), c,
            IF event.content.contract_id # c THEN signatureSets
            ELSE IF MapHas(signatureSets, key)
                 THEN MapSet(signatureSets, key, Append(MapGet(signatureSets, key), event))
                 ELSE MapSet(signatureSets, key, <<event>>))

\* faulty variant of severalLatest: up to three latest events pass as one
severalLatestOverThree(latestEvents) == ~(Len(latestEvents) <= 3)

\* detectForks, step 4: no forks unless there are several latest events
severalLatest(latestEvents) == ~(Len(latestEvents) <= 1)

\* detectForks on the events its fetch returned
detectForksOn(events, c) ==
  LET sets == MapValues(groupBySignatures(events, c, <<>>))
      latestEvents == [i \in DOMAIN sets |-> sortNewestFirst(sets[i])[1]]
  IN IF Len(events) = 0 THEN <<>>
     ELSE IF ~severalLatest(latestEvents) THEN <<>>
     ELSE [i \in DOMAIN latestEvents |-> ForkOf(latestEvents[i])]

\* ---------------------------------------------------------------- reduction
\* faulty variant of isCompleteOf: the count must exceed the requirement
isCompleteStrict(content) == Len(content.signatures) > content.signers_required

\* faulty variant of isCompleteOf: the count must equal the requirement
isCompleteExact(content) == Len(content.signatures) = content.signers_required

isCompleteOf(content) == Len(content.signatures) >= content.signers_required

\* faulty variant of hasSigned: only the first signature is looked at
hasSignedFirst(content, u) ==
  Len(content.signatures) > 0 /\ content.signatures[1].pubkey = u

hasSigned(content, u) ==
  \E i \in DOMAIN content.signatures : content.signatures[i].pubkey = u

\* faulty variant of needsUserSignatureOf: the signatures are not looked at
needsUserSignatureTagOnly(latest, u) == u # NoKey /\ u \in latest.tags.p

needsUserSignatureOf(latest, u) ==
  /\ u # NoKey
  /\ u \in latest.tags.p
  /\ ~hasSigned(latest.content, u)

\* faulty variant of processContractEvents: hasForks whenever detectForks
\* returned an array
processContractEventsForksPresent(events, forks, u) ==
  LET sortedEvents == sortNewestFirst(events)
      latestEvent == sortedEvents[1]
  IN [latestEvent |-> latestEvent,
      allEvents |-> sortedEvents,
      hasForks |-> Len(forks) >= 0,
      forks |-> forks,
      isComplete |-> isCompleteOf(latestEvent.content),
      needsUserSignature |-> needsUserSignatureOf(latestEvent, u)]

\* processContractEvents on the fetched events (not empty) and the forks that
\* detectForks returned
processContractEvents(events, forks, u) ==
  LET sortedEvents == sortNewestFirst(events)
      latestEvent == sortedEvents[1]
      hasForks == Len(forks) > 1
  IN [latestEvent |-> latestEvent,
      allEvents |-> sortedEvents,
      hasForks |-> hasForks,
      forks |-> IF hasForks THEN forks ELSE <<>>,
      isComplete |-> isCompleteOf(latestEvent.content),
      needsUserSignature |-> needsUserSignatureOf(latestEvent, u)]

\* verifyContract, step 2: the signatures without those of a pubkey seen before
RECURSIVE validSignaturesOf(_, _)
validSignaturesOf(sigs, validSignatures) ==
  IF sigs = <<>> THEN validSignatures
  ELSE validSignaturesOf(Tail(sigs),
         IF \E i \in DOMAIN validSignatures : validSignatures[i].pubkey = Head(sigs).pubkey
         THEN validSignatures
         ELSE Append(validSignatures, Head(sigs)))

verifyContract(contract) ==
  IF generateContractId(contract.content) # contract.contract_id
  THEN [valid |-> FALSE, reason |-> "Content hash mismatch"]
  ELSE LET validSignatures == validSignaturesOf(contract.signatures, <<>>)
       IN [valid |-> TRUE,
           validSignatures |-> validSignatures,
           isComplete |-> Len(validSignatures) >= contract.signers_required]

NotFound == [error |-> "Contract not found"]

\* getContractState with no record published between its fetches: every
\* value it can return
getContractState(S, u, c) ==
  LET fetched == fetchContractEvents(S, u, c)
  IN UNION {IF events = <<>> THEN {NotFound}
            ELSE {processContractEvents(events, detectForksOn(events2, c), u)
                  : events2 \in fetched}
            : events \in fetched}

\* ------------------------------------------------------------------ events
\* faulty variant of copyTags: the author of the source event is the one p tag
copyTagsAuthorOnly(src, title) ==
  [d |-> src.tags.d, contract |-> src.tags.contract, title |-> src.tags.title,
   p |-> {src.pubkey}]

copyTags(src, title) ==
  [d |-> src.tags.d, contract |-> src.tags.contract, title |-> src.tags.title,
   p |-> src.tags.p]

\* createContract: the event it signs and publishes
createEvent(author, text, signatories, signersRequired, t) ==
  [pubkey |-> author,
   created_at |-> t,
   tags |-> [d |-> uniqueIdentifier(Title),
             contract |-> generateContractId(text),
             title |-> Title,
             p |-> signatories],
   content |-> [contract_id |-> generateContractId(text),
                title |-> Title,
                content |-> text,
                version |-> 1,
                created_at |-> t,
                signers_required |-> signersRequired,
                signatures |-> <<>>]]

newSignature(u, contractId, t) ==
  [pubkey |-> u, sig |-> <<"sig", u, contractId, t>>, timestamp |-> t]

\* faulty variant of signedEvent: the payload is stamped with the signing time
signedEventRestamped(latest, u, t) ==
  [pubkey |-> u,
   created_at |-> t,
   tags |-> copyTags(latest, latest.content.title),
   content |-> [latest.content EXCEPT
                  !.created_at = t,
                  !.signatures = Append(@, newSignature(u, latest.content.contract_id, t))]]

\* signContract: the event built from the latest event
signedEvent(latest, u, t) ==
  [pubkey |-> u,
   created_at |-> t,
   tags |-> copyTags(latest, latest.content.title),
   content |-> [latest.content EXCEPT
                  !.signatures = Append(@, newSignature(u, latest.content.contract_id, t))]]

\* faulty variant of collect: the entry with the least timestamp is kept
RECURSIVE collectEarliest(_, _)
collectEarliest(entries, acc) ==
  IF entries = <<>> THEN acc
  ELSE LET sig == Head(entries)
           at == {i \in DOMAIN acc : acc[i].pubkey = sig.pubkey}
           i0 == CHOOSE i \in at : TRUE
       IN collectEarliest(Tail(entries),
                  IF at = {} THEN Append(acc, sig)
                  ELSE IF acc[i0].timestamp > sig.timestamp
                       THEN [acc EXCEPT ![i0] = sig]
                       ELSE acc)

\* faulty variant of collect: the entry met first is kept
RECURSIVE collectFirstMet(_, _)
collectFirstMet(entries, acc) ==
  IF entries = <<>> THEN acc
  ELSE LET sig == Head(entries)
           at == {i \in DOMAIN acc : acc[i].pubkey = sig.pubkey}
       IN collectFirstMet(Tail(entries),
                  IF at = {} THEN Append(acc, sig) ELSE acc)

\* resolveForks, step 2: for every signer the entry with the greatest
\* timestamp, in the order the signers are first met
RECURSIVE collect(_, _)
collect(entries, acc) ==
  IF entries = <<>> THEN acc
  ELSE LET sig == Head(entries)
           at == {i \in DOMAIN acc : acc[i].pubkey = sig.pubkey}
           i0 == CHOOSE i \in at : TRUE
       IN collect(Tail(entries),
                  IF at = {} THEN Append(acc, sig)
                  ELSE IF acc[i0].timestamp < sig.timestamp
                       THEN [acc EXCEPT ![i0] = sig]
                       ELSE acc)

RECURSIVE flatten(_)
flatten(forks) ==
  IF forks = <<>> THEN <<>> ELSE Head(forks).signatures \o flatten(Tail(forks))

\* faulty variant of mergeSignatures: every fork's entries, one after another
allForkSignatures(forks) == flatten(forks)

\* faulty variant of mergeSignatures: the first fork's signatures alone
firstForkSignatures(forks) == IF forks = <<>> THEN <<>> ELSE Head(forks).signatures

mergeSignatures(forks) == collect(flatten(forks), <<>>)

\* resolveForks: the event built from the base event and the forks
mergedEvent(base, forks, u, t) ==
  [pubkey |-> u,
   created_at |-> t,
   tags |-> copyTags(base, base.content.title),
   content |-> [base.content EXCEPT !.signatures = mergeSignatures(forks)]]

\* ------------------------------------------------------------- AuthManager
Null == "null"

\* secret keys and the public keys getPublicKey derives from them
SecretKeys == {"secretA", "secretB"}

getPublicKey(secretKey) == IF secretKey = "secretA" THEN "A" ELSE "B"

\* the strings typed into the nsec fields: bech32 nsec encodings of the secret
\* keys, an npub and a string that is no key
NsecInputs ==
  {[prefix |-> "nsec1", type |-> "nsec", data |-> k] : k \in SecretKeys}
  \cup {[prefix |-> "npub1", type |-> "npub", data |-> "A"],
        [prefix |-> "nsec1", type |-> "invalid", data |-> Null]}

\* the tests connectWithNsec and reAuthenticateWithNsec make on the string
validNsec(nsec) == nsec.prefix = "nsec1" /\ nsec.type = "nsec"

\* the pubkeys a NIP-07 extension in window.nostr can answer with
ExtensionKeys == {"A", "B"}

\* sessionStorage without an 'authState' item
NoAuthState == [item |-> Null]

\* the AuthManager after construction in a page with the given
\* sessionStorage entry and window.nostr
constructed(session, nostr) ==
  [pubkey |-> Null, nsec |-> Null, nip07 |-> Null,
   sessionStorage |-> session, windowNostr |-> nostr,
   awaiting |-> "none", last |-> [op |-> "new"]]

isAuthenticated(a) == a.pubkey # Null

canSign(a) == (a.nsec # Null) \/ (a.nip07 # Null)

getAuthMethod(a) ==
  IF ~isAuthenticated(a) THEN Null
  ELSE IF a.nip07 # Null THEN "nip07" ELSE "nsec"

\* faulty variant of saveAuthState: the nsec key is saved with the state
saveAuthStateWithNsec(a) ==
  IF a.pubkey = Null THEN a
  ELSE [a EXCEPT !.sessionStorage =
          [pubkey |-> a.pubkey,
           method |-> IF a.nip07 # Null THEN "nip07" ELSE "nsec",
           nsec |-> a.nsec]]

\* saveAuthState: sessionStorage.setItem('authState', {pubkey, method})
saveAuthState(a) ==
  IF a.pubkey = Null THEN a
  ELSE [a EXCEPT !.sessionStorage =
          [pubkey |-> a.pubkey,
           method |-> IF a.nip07 # Null THEN "nip07" ELSE "nsec"]]

\* signEvent: what it returns or throws
signEventResult(a) ==
  IF ~isAuthenticated(a) THEN "Not authenticated"
  ELSE IF a.nsec # Null THEN "signed"
  ELSE IF getAuthMethod(a) = "nsec" THEN "Your nsec key is not available"
  ELSE "No signing method available"

\* --------------------------------------------- NostrClient's subscriptions
MapDelete(m, k) == SelectSeq(m, LAMBDA entry : entry.key # k)

\* the NostrClient after construction: an empty subscriptions Map; opened
\* counts the subscriptions made with pool.subscribeMany, live holds those
\* that still get events: no sub.close() was called and the relay connection
\* they were made on is open
NostrClient ==
  [subscriptions |-> <<>>, opened |-> 0, live |-> {}, last |-> [op |-> "new", sub |-> 0]]

\* sub.close() of each of the given subscriptions
closeSubs(live, closed) == live \ closed

\* faulty variant of poolClose: the subscriptions outlive the connections
poolCloseKeepingSubs(live) == live

\* pool.close(relays): the connections end, and with them what they carried
poolClose(live) == {}

\* ------------------------------------------------------------------- state
\* store: the relay's events; now: the clock; fresh[p]: the clock has advanced
\* since p's last fetch returned; pc, arg, evs, pend: where each client's
\* running call stands, its contract id, the events of its first fetch and
\* the event it is about to publish; view[p]: the forks of the contract state
\* p's detail page holds; ret: the value the last finished call returned;
\* prov: which call published which event; auth: the AuthManager and the
\* browser state it uses; client: the NostrClient's subscriptions
VARIABLES store, now, fresh, pc, arg, evs, pend, view, ret, prov, auth, client

vars == <<store, now, fresh, pc, arg, evs, pend, view, ret, prov, auth, client>>

None == [kind |-> "none"]

Init ==
  /\ store = {}
  /\ now = 0
  /\ fresh = [p \in Actors |-> TRUE]
  /\ pc = [p \in Actors |-> "idle"]
  /\ arg = [p \in Actors |-> CHOOSE c \in ContractIds : TRUE]
  /\ evs = [p \in Actors |-> <<>>]
  /\ pend = [p \in Actors |-> None]
  /\ view = [p \in Actors |-> <<>>]
  /\ ret = None
  /\ prov = {}
  /\ auth = constructed(NoAuthState, Null)
  /\ client = NostrClient

Running == {p \in Actors : pc[p] # "idle"}

MayStart(p) == pc[p] = "idle" /\ Cardinality(Running) < MaxRunning

\* the clock advances; every client's running fetch window can now close
Tick ==
  /\ now < MaxTime
  /\ now' = now + 1
  /\ fresh' = [p \in Actors |-> TRUE]
  /\ UNCHANGED <<store, pc, arg, evs, pend, view, ret, prov, auth, client>>

\* faulty variant of Published: the event reaches the log although the publish
\* is reported as failed
PublishedAnyway(ok, ev) == store \cup {ev}

\* publishContractEvent: the relay accepts the event (ok) or the publish fails
Published(ok, ev) == IF ok THEN store \cup {ev} ELSE store

CanStore(ev) == Cardinality(store \cup {ev}) <= MaxStore

Created == {r \in prov : r.op = "create"}

CreateContract(p, text, signatories, signersRequired, ok) ==
  LET ev == createEvent(p, text, signatories, signersRequired, now)
  IN /\ pc[p] = "idle"
     /\ Cardinality(Created) < MaxCreates
     /\ ok => CanStore(ev)
     /\ store' = Published(ok, ev)
     /\ ret' = IF ok THEN [kind |-> "created", by |-> p, success |-> TRUE, newEvent |-> ev]
               ELSE [kind |-> "error", by |-> p, success |-> FALSE,
                     message |-> "Failed to publish contract"]
     /\ prov' = IF ok THEN prov \cup {[ev |-> ev, op |-> "create", by |-> p]} ELSE prov
     /\ UNCHANGED <<now, fresh, pc, arg, evs, pend, view, auth, client>>

\* a call's first await: getContractState's fetchContractEvents returns
StateFetch(p, c, next) ==
  /\ MayStart(p)
  /\ fresh[p]
  /\ fresh' = [fresh EXCEPT ![p] = FALSE]
  /\ \E events \in fetchContractEvents(store, p, c) :
        /\ events # <<>>
        /\ pc' = [pc EXCEPT ![p] = next]
        /\ arg' = [arg EXCEPT ![p] = c]
        /\ evs' = [evs EXCEPT ![p] = events]
  /\ UNCHANGED <<store, now, pend, view, ret, prov, auth, client>>

\* signContract's simulatedEvent
simulatedEvent(u, c, t) ==
  [pubkey |-> u,
   created_at |-> t,
   tags |-> [contract |-> c, title |-> "Simulated Contract", p |-> {u}],
   content |-> [contract_id |-> c,
                title |-> "Simulated Contract",
                content |-> "# Simulated Contract",
                version |-> 1,
                created_at |-> t,
                signers_required |-> 2,
                signatures |-> <<[pubkey |-> u, sig |-> "simulated_signature",
                                  timestamp |-> t]>>]]

\* signContract when getContractState throws 'Contract not found': the
\* simulated success
SignNotFound(p, c) ==
  /\ MayStart(p)
  /\ fresh[p]
  /\ fresh' = [fresh EXCEPT ![p] = FALSE]
  /\ <<>> \in fetchContractEvents(store, p, c)
  /\ ret' = [kind |-> "simulated", by |-> p, success |-> TRUE, contract |-> c,
             newEvent |-> simulatedEvent(p, c, now)]
  /\ UNCHANGED <<store, now, pc, arg, evs, pend, view, prov, auth, client>>

SignFetch(p, c) == StateFetch(p, c, "signReduce")

\* faulty variant of signOutcome: the fork test is left out
signOutcomeIgnoringForks(state, u) ==
  IF hasSigned(state.latestEvent.content, u) THEN "alreadySigned" ELSE "sign"

\* faulty variant of signOutcome: the caller's earlier signature is not looked for
signOutcomeSigningAgain(state, u) == IF state.hasForks THEN "forks" ELSE "sign"

\* the outcome of signContract's precondition tests on the reduced state
signOutcome(state, u) ==
  IF state.hasForks THEN "forks"
  ELSE IF hasSigned(state.latestEvent.content, u) THEN "alreadySigned"
  ELSE "sign"

\* what the signer's reduced state held, kept with the call's result
Seen(state) ==
  [hasForks |-> state.hasForks, forks |-> state.forks, latestEvent |-> state.latestEvent]

\* signContract, second await: detectForks' fetch returns, the state is
\* reduced, the preconditions are tested and the new event is built and signed
SignReduce(p) ==
  /\ pc[p] = "signReduce"
  /\ fresh[p]
  /\ fresh' = [fresh EXCEPT ![p] = FALSE]
  /\ \E events2 \in fetchContractEvents(store, p, arg[p]) :
        LET state == processContractEvents(evs[p], detectForksOn(events2, arg[p]), p)
            outcome == signOutcome(state, p)
        IN IF outcome = "forks"
           THEN /\ ret' = [kind |-> "forks", by |-> p, success |-> FALSE,
                           hasForks |-> TRUE, forks |-> state.forks,
                           seen |-> Seen(state)]
                /\ pc' = [pc EXCEPT ![p] = "idle"]
                /\ UNCHANGED pend
           ELSE IF outcome = "alreadySigned"
           THEN /\ ret' = [kind |-> "alreadySigned", by |-> p, success |-> FALSE,
                           message |-> "You have already signed this contract.",
                           seen |-> Seen(state)]
                /\ pc' = [pc EXCEPT ![p] = "idle"]
                /\ UNCHANGED pend
           ELSE /\ pend' = [pend EXCEPT ![p] =
                              [kind |-> "sign",
                               ev |-> signedEvent(state.latestEvent, p, now),
                               from |-> state.latestEvent,
                               seen |-> Seen(state)]]
                /\ pc' = [pc EXCEPT ![p] = "signPublish"]
                /\ UNCHANGED ret
  /\ evs' = [evs EXCEPT ![p] = <<>>]
  /\ UNCHANGED <<store, now, arg, view, prov, auth, client>>

\* signContract, last await: publishContractEvent returns
SignPublish(p, ok) ==
  /\ pc[p] = "signPublish"
  /\ ok => CanStore(pend[p].ev)
  /\ store' = Published(ok, pend[p].ev)
  /\ ret' = IF ok THEN [kind |-> "signed", by |-> p, success |-> TRUE,
                        newEvent |-> pend[p].ev, seen |-> pend[p].seen]
            ELSE [kind |-> "error", by |-> p, success |-> FALSE,
                  message |-> "Failed to publish signature"]
  /\ prov' = IF ok
             THEN prov \cup {[ev |-> pend[p].ev, op |-> "sign", by |-> p,
                              from |-> pend[p].from, seen |-> pend[p].seen]}
             ELSE prov
  /\ pc' = [pc EXCEPT ![p] = "idle"]
  /\ pend' = [pend EXCEPT ![p] = None]
  /\ UNCHANGED <<now, fresh, arg, evs, view, auth, client>>

\* A client that authored a contract's events or is p-tagged in them gets one
\* event from fetchContractEvents, so its detail page never holds forks; the
\* pages modelled are those of the other clients.
Outsiders == Actors \ UNION SignatorySets

\* ContractDetail.fetchContract: getContractState for the detail page
ViewFetch(p, c) == StateFetch(p, c, "viewReduce")

ViewReduce(p) ==
  /\ pc[p] = "viewReduce"
  /\ fresh[p]
  /\ fresh' = [fresh EXCEPT ![p] = FALSE]
  /\ \E events2 \in fetchContractEvents(store, p, arg[p]) :
        LET state == processContractEvents(evs[p], detectForksOn(events2, arg[p]), p)
        IN view' = [view EXCEPT ![p] = state.forks]
  /\ pc' = [pc EXCEPT ![p] = "idle"]
  /\ evs' = [evs EXCEPT ![p] = <<>>]
  /\ UNCHANGED <<store, now, arg, pend, ret, prov, auth, client>>

\* ContractDetail.handleResolveForks and resolveForks up to its publish: the
\* page holds forks, the base event is fetched and the merged event is built
ResolveFetch(p, c) ==
  /\ MayStart(p)
  /\ view[p] # <<>>
  /\ fresh[p]
  /\ fresh' = [fresh EXCEPT ![p] = FALSE]
  /\ \E events \in fetchContractEvents(store, p, c) :
        /\ events # <<>>
        /\ pend' = [pend EXCEPT ![p] =
                      [kind |-> "merge",
                       ev |-> mergedEvent(firstOldest(events), view[p], p, now),
                       from |-> view[p]]]
        /\ pc' = [pc EXCEPT ![p] = "mergePublish"]
        /\ arg' = [arg EXCEPT ![p] = c]
  /\ UNCHANGED <<store, now, evs, view, ret, prov, auth, client>>

\* resolveForks, last await: publishContractEvent returns
MergePublish(p, ok) ==
  /\ pc[p] = "mergePublish"
  /\ ok => CanStore(pend[p].ev)
  /\ store' = Published(ok, pend[p].ev)
  /\ ret' = IF ok THEN [kind |-> "merged", by |-> p, success |-> TRUE,
                        newEvent |-> pend[p].ev]
            ELSE [kind |-> "error", by |-> p, success |-> FALSE,
                  message |-> "Failed to publish merged event"]
  /\ prov' = IF ok
             THEN prov \cup {[ev |-> pend[p].ev, op |-> "merge", by |-> p,
                              from |-> pend[p].from]}
             ELSE prov
  /\ pc' = [pc EXCEPT ![p] = "idle"]
  /\ pend' = [pend EXCEPT ![p] = None]
  /\ UNCHANGED <<now, fresh, arg, evs, view, auth, client>>

Next ==
  \/ Tick
  \/ \E p \in Authors, text \in Texts, s \in SignatorySets, n \in RequiredCounts,
        ok \in BOOLEAN : CreateContract(p, text, s, n, ok)
  \/ \E p \in Actors, c \in ContractIds : SignFetch(p, c)
  \/ \E p \in Actors, c \in ContractIds : SignNotFound(p, c)
  \/ \E p \in Actors : SignReduce(p)
  \/ \E p \in Actors, ok \in BOOLEAN : SignPublish(p, ok)
  \/ \E p \in Outsiders, c \in ContractIds : ViewFetch(p, c)
  \/ \E p \in Actors : ViewReduce(p)
  \/ \E p \in Actors, c \in ContractIds : ResolveFetch(p, c)
  \/ \E p \in Actors, ok \in BOOLEAN : MergePublish(p, ok)

Spec == Init /\ [][Next]_vars

\* ------------------------------------------------ editing before signing
\* the texts updateContractContent is called with
EditTexts == {"T1", "T2"}

EditIds == {generateContractId(t) : t \in EditTexts}

\* an update that keeps the contract id whatever the new text is
updatedEventKeepingId(latest, u, c, title, text, t) ==
  [pubkey |-> u,
   created_at |-> t,
   tags |-> [d |-> latest.tags.d, contract |-> c, title |-> title, p |-> latest.tags.p],
   content |-> [latest.content EXCEPT !.title = title,
                                      !.content = text,
                                      !.created_at = t,
                                      !.signatures = <<>>]]

\* updateContractContent: the event built from the latest event
updatedEvent(latest, u, c, title, text, t) ==
  LET newContractId == IF text # latest.content.content
                       THEN generateContractId(text) ELSE c
  IN [pubkey |-> u,
      created_at |-> t,
      tags |-> [d |-> latest.tags.d, contract |-> newContractId, title |-> title,
                p |-> latest.tags.p],
      content |-> [latest.content EXCEPT !.contract_id = newContractId,
                                         !.title = title,
                                         !.content = text,
                                         !.created_at = t,
                                         !.signatures = <<>>]]

\* faulty variant of updateOutcome: signed contracts can be edited
updateOutcomeAuthorOnly(latest, u) == IF u # latest.pubkey THEN "notAuthor" ELSE "update"

\* the outcome of updateContractContent's tests on the latest event
updateOutcome(latest, u) ==
  IF Len(latest.content.signatures) > 0 THEN "signed"
  ELSE IF u # latest.pubkey THEN "notAuthor"
  ELSE "update"

UpdateFetch(p, c) == StateFetch(p, c, "updateReduce")

\* updateContractContent when getContractState throws 'Contract not found'
UpdateNotFound(p, c) ==
  /\ MayStart(p)
  /\ fresh[p]
  /\ fresh' = [fresh EXCEPT ![p] = FALSE]
  /\ <<>> \in fetchContractEvents(store, p, c)
  /\ ret' = [kind |-> "error", by |-> p, success |-> FALSE,
             message |-> "Contract not found"]
  /\ UNCHANGED <<store, now, pc, arg, evs, pend, view, prov, auth, client>>

\* updateContractContent, second await: detectForks' fetch returns, the state
\* is reduced, the tests are made and the updated event is built and signed
UpdateReduce(p, title, text) ==
  /\ pc[p] = "updateReduce"
  /\ fresh[p]
  /\ fresh' = [fresh EXCEPT ![p] = FALSE]
  /\ \E events2 \in fetchContractEvents(store, p, arg[p]) :
        LET state == processContractEvents(evs[p], detectForksOn(events2, arg[p]), p)
            outcome == updateOutcome(state.latestEvent, p)
        IN IF outcome = "signed"
           THEN /\ ret' = [kind |-> "error", by |-> p, success |-> FALSE,
                           message |-> "Cannot edit a contract that already has signatures"]
                /\ pc' = [pc EXCEPT ![p] = "idle"]
                /\ UNCHANGED pend
           ELSE IF outcome = "notAuthor"
           THEN /\ ret' = [kind |-> "error", by |-> p, success |-> FALSE,
                           message |-> "You can only edit contracts that you created"]
                /\ pc' = [pc EXCEPT ![p] = "idle"]
                /\ UNCHANGED pend
           ELSE /\ pend' = [pend EXCEPT ![p] =
                              [kind |-> "update",
                               ev |-> updatedEvent(state.latestEvent, p, arg[p], title, text, now),
                               from |-> state.latestEvent]]
                /\ pc' = [pc EXCEPT ![p] = "updatePublish"]
                /\ UNCHANGED ret
  /\ evs' = [evs EXCEPT ![p] = <<>>]
  /\ UNCHANGED <<store, now, arg, view, prov, auth, client>>

\* updateContractContent, last await: publishContractEvent returns
UpdatePublish(p, ok) ==
  /\ pc[p] = "updatePublish"
  /\ ok => CanStore(pend[p].ev)
  /\ store' = Published(ok, pend[p].ev)
  /\ ret' = [kind |-> "updated", by |-> p, success |-> ok, newEvent |-> pend[p].ev]
  /\ prov' = IF ok
             THEN prov \cup {[ev |-> pend[p].ev, op |-> "update", by |-> p,
                              from |-> pend[p].from]}
             ELSE prov
  /\ pc' = [pc EXCEPT ![p] = "idle"]
  /\ pend' = [pend EXCEPT ![p] = None]
  /\ UNCHANGED <<now, fresh, arg, evs, view, auth, client>>

\* createContract, signContract, resolveForks and updateContractContent on
\* the contract ids of the edited texts, one call at a time
NextEdit ==
  \/ Tick
  \/ \E p \in Authors, text \in Texts, s \in SignatorySets, n \in RequiredCounts,
        ok \in BOOLEAN : Running = {} /\ CreateContract(p, text, s, n, ok)
  \/ \E p \in Actors, c \in EditIds : Running = {} /\ SignFetch(p, c)
  \/ \E p \in Actors, c \in EditIds : Running = {} /\ SignNotFound(p, c)
  \/ \E p \in Actors : SignReduce(p)
  \/ \E p \in Actors, ok \in BOOLEAN : SignPublish(p, ok)
  \/ \E p \in Outsiders, c \in EditIds : Running = {} /\ ViewFetch(p, c)
  \/ \E p \in Actors : ViewReduce(p)
  \/ \E p \in Actors, c \in EditIds : Running = {} /\ ResolveFetch(p, c)
  \/ \E p \in Actors, ok \in BOOLEAN : MergePublish(p, ok)
  \/ \E p \in Actors, c \in EditIds : Running = {} /\ UpdateFetch(p, c)
  \/ \E p \in Actors, c \in EditIds : Running = {} /\ UpdateNotFound(p, c)
  \/ \E p \in Actors, text \in EditTexts : UpdateReduce(p, Title, text)
  \/ \E p \in Actors, ok \in BOOLEAN : UpdatePublish(p, ok)

SpecEdit == Init /\ [][NextEdit]_vars

\* --------------------------------------------- reduction of any record set
\* The reducer applied to record sets drawn from a bounded family, delivered
\* in any order.
MaxSample == 2
SampleTimes == {1, 2}
SampleContract == generateContractId("T1")

Entry(u, t) == newSignature(u, SampleContract, t)

\* signature lists with at most one entry per signer
SampleSigLists ==
  {<<>>, <<Entry("A", 1)>>, <<Entry("B", 1)>>, <<Entry("B", 2)>>,
   <<Entry("A", 1), Entry("B", 2)>>, <<Entry("B", 2), Entry("A", 1)>>}

SampleEvent(author, t, sigs, n) ==
  [createEvent(author, "T1", {"A", "B"}, n, t) EXCEPT !.content.signatures = sigs]

\* events of a contract that requires three signatures and carries two,
\* three and four
BoundaryEvents ==
  {SampleEvent("A", 1, sigs, 3) :
     sigs \in {<<Entry("A", 1), Entry("B", 2)>>,
               <<Entry("A", 1), Entry("B", 2), Entry("C", 1)>>,
               <<Entry("A", 1), Entry("B", 2), Entry("C", 1), Entry("D", 1)>>}}

\* events whose content text is not the text their contract_id is the hash of
CorruptEvents ==
  {[SampleEvent("A", 2, sigs, 2) EXCEPT !.content.content = "T2"] :
     sigs \in {<<>>, <<Entry("B", 2)>>}}

\* events of a second contract
OtherContractEvents ==
  {[createEvent("A", "T3", {"A", "B"}, 2, t) EXCEPT !.content.signatures = sigs] :
     t \in SampleTimes, sigs \in {<<>>}}

\* events another client published with signature lists the samples carry
RepublishedEvents ==
  {SampleEvent("B", 2, sigs, 2) :
     sigs \in {<<Entry("B", 1)>>, <<Entry("A", 1), Entry("B", 2)>>,
               <<Entry("B", 2), Entry("A", 1)>>}}

SampleEvents ==
  {SampleEvent("A", t, sigs, n) : t \in SampleTimes, sigs \in SampleSigLists, n \in {1, 2}}
  \cup BoundaryEvents \cup CorruptEvents \cup RepublishedEvents \cup OtherContractEvents

RECURSIVE SubsetsUpTo(_, _)
SubsetsUpTo(S, n) ==
  IF n = 0 THEN {{}}
  ELSE LET smaller == SubsetsUpTo(S, n - 1)
       IN smaller \cup {T \cup {x} : T \in smaller, x \in S}

RECURSIVE Perms(_)
Perms(S) ==
  IF S = {} THEN {<<>>}
  ELSE UNION {{<<x>> \o s : s \in Perms(S \ {x})} : x \in S}

Idle ==
  /\ now = 0
  /\ fresh = [p \in Actors |-> TRUE]
  /\ pc = [p \in Actors |-> "idle"]
  /\ arg = [p \in Actors |-> SampleContract]
  /\ evs = [p \in Actors |-> <<>>]
  /\ pend = [p \in Actors |-> None]
  /\ ret = None
  /\ prov = {}
  /\ auth = constructed(NoAuthState, Null)
  /\ client = NostrClient

InitReduce ==
  /\ store \in SubsetsUpTo(SampleEvents, MaxSample)
  /\ view = [p \in Actors |-> <<>>]
  /\ Idle

\* getContractState's reduction of the events a fetch delivered
Reduce(events, u, c) ==
  /\ events # <<>>
  /\ ret' = [kind |-> "state", by |-> u, contract |-> c, events |-> events,
             state |-> processContractEvents(events, detectForksOn(events, c), u)]
  /\ UNCHANGED <<store, now, fresh, pc, arg, evs, pend, view, prov, auth, client>>

\* the contract ids asked for: the samples' and one no sample carries
LookupIds == {SampleContract, generateContractId("T2")}

\* getContractState called by client u for contract id c
Lookup(u, c) ==
  /\ \E result \in getContractState(store, u, c) :
        ret' = [kind |-> "lookup", by |-> u, contract |-> c, result |-> result]
  /\ UNCHANGED <<store, now, fresh, pc, arg, evs, pend, view, prov, auth, client>>

\* fetchUserContracts on the events its subscription collected, in the order
\* they arrived
FetchUser(delivered) ==
  /\ ret' = [kind |-> "userContracts", delivered |-> delivered,
             result |-> fetchUserContracts(delivered)]
  /\ UNCHANGED <<store, now, fresh, pc, arg, evs, pend, view, prov, auth, client>>

\* one call in every behaviour: a call's result does not depend on earlier calls
NextReduce ==
  \/ \E events \in Perms(fetchByContractTag(store, SampleContract)),
        u \in Pubkeys \cup {NoKey} :
        ret = None /\ Reduce(events, u, SampleContract)
  \/ \E u \in Pubkeys \cup {NoKey}, c \in LookupIds : ret = None /\ Lookup(u, c)
  \/ \E delivered \in Perms(store) : ret = None /\ FetchUser(delivered)

SpecReduce == InitReduce /\ [][NextReduce]_vars

\* ------------------------------------------------- merging of any fork list
\* resolveForks called with fork lists drawn from a bounded family.
MaxForks == 2

SampleForkSigLists ==
  SampleSigLists \cup {<<Entry("A", 2)>>, <<Entry("A", 2), Entry("B", 1)>>}

SampleForks == {ForkOf(SampleEvent("A", 2, sigs, 2)) : sigs \in SampleForkSigLists}

RECURSIVE SeqsUpTo(_, _)
SeqsUpTo(S, n) ==
  IF n = 0 THEN {<<>>}
  ELSE LET shorter == SeqsUpTo(S, n - 1)
       IN shorter \cup {Append(s, x) : s \in shorter, x \in S}

InitMerge ==
  /\ store = {SampleEvent("A", 0, <<>>, 2)}
  /\ view \in {[p \in Actors |-> IF p = "C" THEN forks ELSE <<>>]
               : forks \in SeqsUpTo(SampleForks, MaxForks)}
  /\ Idle

NextMerge ==
  \/ Tick
  \/ ResolveFetch("C", SampleContract)
  \/ \E ok \in BOOLEAN : MergePublish("C", ok)

SpecMerge == InitMerge /\ [][NextMerge]_vars

\* ----------------------------------------- resolveForks by two clients at once
\* a contract of A and D: the clients B and C are no signatories of it, their
\* detail pages read every record of the contract and can hold forks
Resolvers == {"B", "C"}

ConvergeEvent(t, sigs) ==
  [createEvent("A", "T1", {"A", "D"}, 2, t) EXCEPT !.content.signatures = sigs]

\* the forks on their pages: a signer with two timestamps, alone and with a
\* second signer
ConvergeSigLists ==
  {<<Entry("A", 1)>>, <<Entry("A", 2)>>, <<Entry("A", 1), Entry("D", 2)>>,
   <<Entry("D", 1), Entry("A", 2)>>}

ConvergeForks == {ForkOf(ConvergeEvent(2, sigs)) : sigs \in ConvergeSigLists}

\* the pages of the resolvers hold the same forks, in any order each
InitConverge ==
  /\ store = {ConvergeEvent(0, <<>>)}
  /\ view \in UNION {{[p \in Actors |-> IF p = "C" THEN forks
                                        ELSE IF p \in Resolvers THEN forks2 ELSE <<>>]
                      : forks2 \in {s \in SeqsUpTo(ConvergeForks, MaxForks) :
                                      Range(s) = Range(forks)}}
                     : forks \in SeqsUpTo(ConvergeForks, MaxForks)}
  /\ Idle

NextConverge ==
  \/ Tick
  \/ \E p \in Resolvers : ResolveFetch(p, SampleContract)
  \/ \E p \in Resolvers, ok \in BOOLEAN : MergePublish(p, ok)

SpecConverge == InitConverge /\ [][NextConverge]_vars

\* ------------------------------------------------------ AuthManager's calls
contractVars == <<store, now, fresh, pc, arg, evs, pend, view, ret, prov, client>>

\* no callback of loadAuthState is waiting to run
Open == auth.awaiting \in {"none", "getPublicKey"}

Threw(a, op, message) == [a EXCEPT !.last = [op |-> op, error |-> message]]

Returned(a, op) == [a EXCEPT !.last = [op |-> op, error |-> Null]]

\* connectWithNip07 up to its await of the extension's getPublicKey
ConnectWithNip07 ==
  /\ auth.awaiting = "none"
  /\ auth' = IF auth.windowNostr = Null
             THEN Threw(auth, "connectWithNip07", "NIP-07 extension not available")
             ELSE [auth EXCEPT !.nip07 = auth.windowNostr, !.awaiting = "getPublicKey",
                               !.last = [op |-> "connectWithNip07", error |-> "awaiting"]]
  /\ UNCHANGED contractVars

\* connectWithNip07 after the await: the extension answered or refused
Nip07Answered(ok) ==
  /\ auth.awaiting = "getPublicKey"
  /\ auth' = IF ok
             THEN Returned(saveAuthState([auth EXCEPT !.pubkey = auth.windowNostr,
                                                      !.nsec = Null,
                                                      !.awaiting = "none"]),
                           "connectWithNip07")
             ELSE Threw([auth EXCEPT !.awaiting = "none"], "connectWithNip07",
                        "Failed to connect with NIP-07 extension")
  /\ UNCHANGED contractVars

ConnectWithNsec(nsec) ==
  /\ Open
  /\ auth' = IF validNsec(nsec)
             THEN Returned(saveAuthState([auth EXCEPT !.pubkey = getPublicKey(nsec.data),
                                                      !.nsec = nsec.data,
                                                      !.nip07 = Null]),
                           "connectWithNsec")
             ELSE Threw(auth, "connectWithNsec", "Invalid nsec key")
  /\ UNCHANGED contractVars

GenerateKeypair(privateKey) ==
  /\ Open
  /\ auth' = Returned(saveAuthState([auth EXCEPT !.pubkey = getPublicKey(privateKey),
                                                 !.nsec = privateKey,
                                                 !.nip07 = Null]),
                      "generateKeypair")
  /\ UNCHANGED contractVars

\* faulty variant of reAuthenticateWithNsec: any valid key is taken
reAuthenticateWithAnyNsec(a, nsec) ==
  IF ~isAuthenticated(a)
  THEN Threw(a, "reAuthenticateWithNsec", "Not authenticated. Please log in first.")
  ELSE IF ~validNsec(nsec)
  THEN Threw(a, "reAuthenticateWithNsec",
             "Invalid nsec key or key does not match your public key")
  ELSE Returned([a EXCEPT !.nsec = nsec.data], "reAuthenticateWithNsec")

reAuthenticateWithNsec(a, nsec) ==
  IF ~isAuthenticated(a)
  THEN Threw(a, "reAuthenticateWithNsec", "Not authenticated. Please log in first.")
  ELSE IF ~validNsec(nsec) \/ getPublicKey(nsec.data) # a.pubkey
  THEN Threw(a, "reAuthenticateWithNsec",
             "Invalid nsec key or key does not match your public key")
  ELSE Returned([a EXCEPT !.nsec = nsec.data], "reAuthenticateWithNsec")

\* the call, with the string it was given kept beside its outcome
ReAuthenticateWithNsec(nsec) ==
  /\ Open
  /\ auth' = [reAuthenticateWithNsec(auth, nsec) EXCEPT
                 !.last = [op |-> "reAuthenticateWithNsec",
                           error |-> reAuthenticateWithNsec(auth, nsec).last.error,
                           input |-> nsec]]
  /\ UNCHANGED contractVars

\* signEvent; canSign() is what the pages test before they call it
SignEvent ==
  /\ Open
  /\ auth' = [auth EXCEPT !.last = [op |-> "signEvent",
                                    canSign |-> canSign(auth),
                                    result |-> signEventResult(auth)]]
  /\ UNCHANGED contractVars

logout(a) ==
  [a EXCEPT !.pubkey = Null, !.nsec = Null, !.nip07 = Null, !.sessionStorage = NoAuthState]

Logout ==
  /\ Open
  /\ auth' = Returned(logout(auth), "logout")
  /\ UNCHANGED contractVars

\* the page is loaded again: a new AuthManager, the tab's sessionStorage, and
\* whatever extension the browser has now
Reload(nostr) ==
  /\ auth' = [constructed(auth.sessionStorage, nostr) EXCEPT !.awaiting = "mount"]
  /\ UNCHANGED contractVars

\* loadAuthState, called when the App mounts, up to its return
LoadAuthState ==
  /\ auth.awaiting \in {"none", "mount"}
  /\ auth' = IF auth.sessionStorage = NoAuthState
             THEN Returned([auth EXCEPT !.awaiting = "none"], "loadAuthState")
             ELSE Returned([auth EXCEPT !.pubkey = auth.sessionStorage.pubkey,
                                        !.awaiting = IF auth.sessionStorage.method = "nip07"
                                                     THEN "loadCheck" ELSE "none"],
                           "loadAuthState")
  /\ UNCHANGED contractVars

\* loadAuthState's checkForNip07().then(...) callback
LoadCheck ==
  /\ auth.awaiting = "loadCheck"
  /\ auth' = IF auth.windowNostr # Null
             THEN [auth EXCEPT !.nip07 = auth.windowNostr, !.awaiting = "none",
                               !.last = [op |-> "loadCheck", error |-> Null]]
             ELSE [logout(auth) EXCEPT !.awaiting = "none",
                                       !.last = [op |-> "logout", error |-> Null]]
  /\ UNCHANGED contractVars

InitAuth ==
  /\ store = {}
  /\ view = [p \in Actors |-> <<>>]
  /\ now = 0
  /\ fresh = [p \in Actors |-> TRUE]
  /\ pc = [p \in Actors |-> "idle"]
  /\ arg = [p \in Actors |-> SampleContract]
  /\ evs = [p \in Actors |-> <<>>]
  /\ pend = [p \in Actors |-> None]
  /\ ret = None
  /\ prov = {}
  /\ auth \in {constructed(NoAuthState, nostr) : nostr \in ExtensionKeys \cup {Null}}
  /\ client = NostrClient

NextAuth ==
  \/ ConnectWithNip07
  \/ \E ok \in BOOLEAN : Nip07Answered(ok)
  \/ \E nsec \in NsecInputs : ConnectWithNsec(nsec)
  \/ \E privateKey \in SecretKeys : GenerateKeypair(privateKey)
  \/ \E nsec \in NsecInputs : ReAuthenticateWithNsec(nsec)
  \/ SignEvent
  \/ Logout
  \/ \E nostr \in ExtensionKeys \cup {Null} : Reload(nostr)
  \/ LoadAuthState
  \/ LoadCheck

SpecAuth == InitAuth /\ [][NextAuth]_vars

\* ------------------------------------------------------ NostrClient's calls
otherVars == <<store, now, fresh, pc, arg, evs, pend, view, ret, prov, auth>>

\* subscribeToContractUpdates: a new subscription, kept under the contract id
SubscribeToContractUpdates(c) ==
  /\ client.opened < MaxSubscriptions
  /\ LET sub == client.opened + 1
     IN client' = [subscriptions |-> MapSet(client.subscriptions, c, sub),
                   opened |-> sub,
                   live |-> client.live \cup {sub},
                   last |-> [op |-> "subscribe", sub |-> sub]]
  /\ UNCHANGED otherVars

\* the unsubscribe function subscribeToContractUpdates returned, called by
\* the page that holds it
Unsubscribe(sub) ==
  /\ sub \in 1..client.opened
  /\ client' = [client EXCEPT !.live = closeSubs(@, {sub}),
                              !.last = [op |-> "unsubscribe", sub |-> sub]]
  /\ UNCHANGED otherVars

UnsubscribeFromContractUpdates(c) ==
  /\ client' = IF MapHas(client.subscriptions, c)
               THEN [client EXCEPT
                       !.live = closeSubs(@, {MapGet(client.subscriptions, c)}),
                       !.subscriptions = MapDelete(@, c),
                       !.last = [op |-> "unsubscribeFrom", sub |-> 0]]
               ELSE [client EXCEPT !.last = [op |-> "unsubscribeFrom", sub |-> 0]]
  /\ UNCHANGED otherVars

Disconnect ==
  /\ client' = [client EXCEPT
                  !.live = poolClose(closeSubs(@, Range(MapValues(client.subscriptions)))),
                  !.subscriptions = <<>>,
                  !.last = [op |-> "disconnect", sub |-> 0,
                            wasLive |-> client.live,
                            registered |-> Range(MapValues(client.subscriptions))]]
  /\ UNCHANGED otherVars

InitClient ==
  /\ store = {}
  /\ view = [p \in Actors |-> <<>>]
  /\ Idle

NextClient ==
  \/ \E c \in EditIds : SubscribeToContractUpdates(c)
  \/ \E sub \in 1..MaxSubscriptions : Unsubscribe(sub)
  \/ \E c \in EditIds : UnsubscribeFromContractUpdates(c)
  \/ Disconnect

SpecClient == InitClient /\ [][NextClient]_vars

\* ------------------------------------------------------------- properties
Viewers == Pubkeys \cup {NoKey}

Signs == {r \in prov : r.op = "sign"}

Merges == {r \in prov : r.op = "merge"}

\* the (pubkey, timestamp) pairs of a signature list
SigPairs(sigs) == {<<sigs[i].pubkey, sigs[i].timestamp>> : i \in DOMAIN sigs}

Fingerprints(events) == {SigPairs(events[i].content.signatures) : i \in DOMAIN events}

\* two signers signed the same latest event, neither having seen forks
Raced(r1, r2) ==
  /\ r1 \in Signs /\ r2 \in Signs
  /\ r1.by # r2.by
  /\ r1.from = r2.from
  /\ ~r1.seen.hasForks /\ ~r2.seen.hasForks

ForksWith(forks, sigs) ==
  {i \in DOMAIN forks : SigPairs(forks[i].signatures) = SigPairs(sigs)}

\* the states getContractState can return to viewer u whose events hold all of E
StatesOver(u, c, E) ==
  {st \in getContractState(store, u, c) \ {NotFound} : E \subseteq Range(st.allEvents)}

\* C1: after two signers raced from the same unforked state, every contract
\* state reduced from events that hold both new records has hasForks = TRUE
\* and exactly one Fork entry for each racer's signature list.
C1_RaceDetected ==
  \A r1, r2 \in Signs :
     Raced(r1, r2) =>
       \A u \in Viewers :
          \A st \in StatesOver(u, r1.ev.content.contract_id, {r1.ev, r2.ev}) :
             /\ st.hasForks
             /\ Cardinality(ForksWith(st.forks, r1.ev.content.signatures)) = 1
             /\ Cardinality(ForksWith(st.forks, r2.ev.content.signatures)) = 1

C1_Witness ==
  \E r1, r2 \in Signs :
     /\ Raced(r1, r2)
     /\ \E u \in Viewers :
           \E st \in StatesOver(u, r1.ev.content.contract_id, {r1.ev, r2.ev}) :
              st.hasForks /\ Len(st.forks) >= 2

TwoDisjointSingles(events) ==
  /\ Len(events) = 2
  /\ Len(events[1].content.signatures) = 1
  /\ Len(events[2].content.signatures) = 1
  /\ events[1].content.signatures[1].pubkey # events[2].content.signatures[1].pubkey
  /\ events[1].created_at # events[2].created_at

\* C2: the reduced state of a record set has hasForks = TRUE exactly when the
\* records carry more than one distinct signature fingerprint; two records
\* with disjoint single-signer lists and different created_at give
\* hasForks = TRUE and exactly 2 forks.
C2_ForksIffFingerprints ==
  ret.kind = "state" =>
    /\ ret.state.hasForks <=> Cardinality(Fingerprints(ret.events)) > 1
    /\ TwoDisjointSingles(ret.events) => ret.state.hasForks /\ Len(ret.state.forks) = 2

C2_Witness ==
  /\ ret.kind = "state"
  /\ TwoDisjointSingles(ret.events)
  /\ ret.state.hasForks
  /\ Len(ret.state.forks) = 2

SignReturns == {"forks", "alreadySigned", "signed"}

\* C3: signContract on a reduced state with hasForks = TRUE returns
\* success = FALSE, hasForks = TRUE and the state's forks, builds no event and
\* publishes nothing.
C3_SignRefusesForks ==
  /\ [](/\ (ret.kind \in SignReturns /\ ret.seen.hasForks) =>
              /\ ret.kind = "forks"
              /\ ret.success = FALSE
              /\ ret.hasForks
              /\ ret.forks = ret.seen.forks
           /\ \A p \in Actors : pend[p].kind = "sign" => ~pend[p].seen.hasForks
           /\ \A r \in Signs : ~r.seen.hasForks)
  /\ [][\A p \in Actors :
          (pc[p] = "signReduce" /\ pc'[p] = "idle" /\ ret'.kind = "forks") =>
             /\ store' = store
             /\ prov' = prov
             /\ pend'[p] = None]_vars

C3_Witness ==
  /\ ret.kind = "forks"
  /\ ret.success = FALSE
  /\ Len(ret.forks) > 1

\* C4: when the events a signer's signContract reduces hold the record this
\* signer published earlier, the call fails with 'You have already signed
\* this contract.' and publishes nothing.
C4_SecondSignRejected ==
  [][\A p \in Actors :
       (/\ pc[p] = "signReduce"
        /\ pc'[p] # "signReduce"
        /\ \E r \in Signs : r.by = p /\ r.ev \in Range(evs[p])) =>
          /\ ret'.kind = "alreadySigned"
          /\ ret'.by = p
          /\ ret'.success = FALSE
          /\ pc'[p] = "idle"
          /\ pend'[p] = None
          /\ store' = store]_vars

C4_Witness ==
  /\ ret.kind = "alreadySigned"
  /\ \E r \in Signs : r.by = ret.by /\ r.ev = ret.seen.latestEvent

\* C5: after resolveForks merged the forks of two racing signers, a state
\* reduced from events that still hold both racers' records and the merged
\* record has hasForks = FALSE and its latest event is signed by the union of
\* the two records' signers.
C5_MergeSettlesForks ==
  \A r1, r2 \in Signs : \A m \in Merges :
     (Raced(r1, r2) /\ {ForkOf(r1.ev), ForkOf(r2.ev)} \subseteq Range(m.from)) =>
       \A u \in Viewers :
          \A st \in StatesOver(u, m.ev.content.contract_id, {r1.ev, r2.ev, m.ev}) :
             /\ ~st.hasForks
             /\ SignerSet(st.latestEvent.content.signatures) =
                  SignerSet(r1.ev.content.signatures) \cup SignerSet(r2.ev.content.signatures)

HasSignedAny(p) == \E e \in store : p \in SignerSet(e.content.signatures)

\* the merged record is the newest record of contract c and p is one of its
\* signatories
MergedNewest(p, c) ==
  \E m \in Merges :
     /\ Newest(store) = {m.ev}
     /\ m.ev.content.contract_id = c
     /\ p \in m.ev.tags.p

\* C6: once resolveForks has published the merged record and nothing was
\* published after it, signContract by a signatory who has not signed is not
\* rejected (neither for forks nor as already signed), and it returns success
\* when the relay accepts the new event.
C6_SignAfterMerge ==
  [][\A p \in Actors :
       /\ (/\ pc[p] = "signReduce"
           /\ pc'[p] # "signReduce"
           /\ MergedNewest(p, arg[p])
           /\ ~HasSignedAny(p)) =>
             /\ pc'[p] = "signPublish"
             /\ pend'[p].kind = "sign"
             /\ p \in SignerSet(pend'[p].ev.content.signatures)
       /\ (pc[p] = "signPublish" /\ pc'[p] = "idle" /\ store' # store) =>
             /\ ret'.kind = "signed"
             /\ ret'.by = p
             /\ ret'.success
             /\ ret'.newEvent \in store']_vars

C6_Witness ==
  /\ ret.kind = "signed"
  /\ ret.success
  /\ ret.by \in ret.newEvent.tags.p
  /\ ret.seen.latestEvent \in {m.ev : m \in Merges}
  /\ ret.by \notin SignerSet(ret.seen.latestEvent.content.signatures)

\* the forks resolveForks was given and the signatures of the event it built
MergeResults ==
  {[from |-> pend[p].from, sigs |-> pend[p].ev.content.signatures]
     : p \in {q \in Actors : pend[q].kind = "merge"}}
  \cup {[from |-> m.from, sigs |-> m.ev.content.signatures] : m \in Merges}

EntriesOf(forks) == UNION {Range(forks[i].signatures) : i \in DOMAIN forks}

EntriesFor(sigs, k) == {i \in DOMAIN sigs : sigs[i].pubkey = k}

GreatestStamp(forks, k) ==
  CHOOSE t \in {e.timestamp : e \in {x \in EntriesOf(forks) : x.pubkey = k}} :
     \A e \in EntriesOf(forks) : e.pubkey = k => e.timestamp <= t

Reordered(forks) ==
  {[i \in DOMAIN forks |-> forks[g[i]]] : g \in Perms(DOMAIN forks)}

\* the forks hold entries of signer k with different timestamps
Conflict(forks, k) ==
  \E e1, e2 \in EntriesOf(forks) :
     e1.pubkey = k /\ e2.pubkey = k /\ e1.timestamp # e2.timestamp

\* C7: when the forks hold entries of one signer with different timestamps,
\* the merged event has exactly one entry of that signer, the one with the
\* greatest timestamp, whatever the order of the forks.
C7_MergeKeepsLatestEntry ==
  \A r \in MergeResults : \A k \in Pubkeys :
     Conflict(r.from, k) =>
       /\ Cardinality(EntriesFor(r.sigs, k)) = 1
       /\ \A i \in EntriesFor(r.sigs, k) : r.sigs[i].timestamp = GreatestStamp(r.from, k)
       /\ \A forks \in Reordered(r.from) :
             {e \in Range(mergeSignatures(forks)) : e.pubkey = k}
               = {r.sigs[i] : i \in EntriesFor(r.sigs, k)}

C7_Witness ==
  \E r \in MergeResults : \E k \in Pubkeys :
     /\ Len(r.from) >= 2
     /\ \E i, j \in DOMAIN r.from : \E e1 \in Range(r.from[i].signatures) :
           \E e2 \in Range(r.from[j].signatures) :
              i < j /\ e1.pubkey = k /\ e2.pubkey = k /\ e1.timestamp > e2.timestamp
     /\ \A i \in EntriesFor(r.sigs, k) : r.sigs[i].timestamp = GreatestStamp(r.from, k)

\* C8: the signers of the merged event are exactly the signers of the forks,
\* and each of them has exactly one entry in it.
C8_MergeIsUnion ==
  \A r \in MergeResults :
     /\ SignerSet(r.sigs) = UNION {SignerSet(r.from[i].signatures) : i \in DOMAIN r.from}
     /\ \A k \in SignerSet(r.sigs) : Cardinality(EntriesFor(r.sigs, k)) = 1

C8_Witness ==
  \E r \in MergeResults :
     /\ Len(r.from) >= 2
     /\ \E k \in Pubkeys : \E i, j \in DOMAIN r.from :
           i # j /\ k \in SignerSet(r.from[i].signatures) /\ k \in SignerSet(r.from[j].signatures)
     /\ \E k \in SignerSet(r.sigs) : \E i \in DOMAIN r.from : k \notin SignerSet(r.from[i].signatures)
     /\ Cardinality(SignerSet(r.sigs)) = Len(r.sigs)

\* two signers raced from the unsigned event of a contract that requires two
\* signatures, and resolveForks merged forks that hold both their records
RaceMerged(r1, r2, m) ==
  /\ Raced(r1, r2)
  /\ m \in Merges
  /\ r1.from.content.signatures = <<>>
  /\ r1.from.content.signers_required = 2
  /\ {ForkOf(r1.ev), ForkOf(r2.ev)} \subseteq Range(m.from)

\* C9: a contract requires two signatures, two signers raced from the unsigned
\* event and resolveForks merged their forks: while the merged event is the
\* newest, every contract state has a latest event that carries exactly the
\* two signatures, and isComplete = TRUE.
C9_RaceThenMergeCompletes ==
  \A r1, r2 \in Signs : \A m \in Merges :
     (RaceMerged(r1, r2, m) /\ Newest(store) = {m.ev}) =>
       \A u \in Viewers : \A st \in getContractState(store, u, m.ev.content.contract_id) :
          /\ st # NotFound
          /\ SignerSet(st.latestEvent.content.signatures) = {r1.by, r2.by}
          /\ Len(st.latestEvent.content.signatures) = 2
          /\ st.isComplete

C9_Witness ==
  \E r1, r2 \in Signs : \E m \in Merges :
     /\ RaceMerged(r1, r2, m)
     /\ Newest(store) = {m.ev}
     /\ r1.ev.created_at < r2.ev.created_at
     /\ \A st \in getContractState(store, "A", m.ev.content.contract_id) :
           st # NotFound /\ st.isComplete /\ st.latestEvent = m.ev

IsPrefix(s, t) == Len(s) <= Len(t) /\ SubSeq(t, 1, Len(s)) = s

\* every record but the first extends, by one signature, the record that was
\* the newest before it, and nothing was merged
Sequential ==
  /\ Merges = {}
  /\ \A r \in Signs : \A e \in store :
        e.created_at < r.ev.created_at => e.created_at <= r.from.created_at
  /\ \A e1, e2 \in store :
        e1 # e2 => /\ e1.created_at # e2.created_at
                   /\ e1.created_at < e2.created_at =>
                        IsPrefix(e1.content.signatures, e2.content.signatures)

\* C10: in a strictly sequential run no contract state has hasForks = TRUE.
C10_SequentialNeverForks ==
  Sequential =>
    \A u \in Viewers : \A c \in ContractIds :
       \A st \in getContractState(store, u, c) \ {NotFound} : ~st.hasForks

Latest(st) == st.latestEvent.content

\* C11: in every reduced state isComplete is TRUE exactly when the latest
\* event has at least signers_required signature entries, whatever the counts
\* (fewer, as many, more), and the reduction returns a state in every case.
C11_CompleteIffEnoughSignatures ==
  ret.kind = "state" =>
     ret.state.isComplete =
       (Len(Latest(ret.state).signatures) >= Latest(ret.state).signers_required)

C11_Witness ==
  /\ ret.kind = "state"
  /\ Latest(ret.state).signers_required = 3
  /\ Len(Latest(ret.state).signatures) = 4
  /\ ret.state.isComplete

\* C12: in every reduced state needsUserSignature is TRUE exactly when the
\* viewer's pubkey is among the p tags of the latest event and no signature
\* entry of the latest event has that pubkey.
C12_NeedsSignatureIffRequiredUnsigned ==
  ret.kind = "state" =>
     ret.state.needsUserSignature =
       (/\ ret.by \in ret.state.latestEvent.tags.p
        /\ \A i \in DOMAIN Latest(ret.state).signatures :
              Latest(ret.state).signatures[i].pubkey # ret.by)

C12_Witness ==
  /\ ret.kind = "state"
  /\ ret.by = "B"
  /\ SignerSet(Latest(ret.state).signatures) = {"A"}
  /\ ret.state.needsUserSignature

\* C13: reducing exactly one record gives hasForks = FALSE, no forks, and
\* that record as latestEvent.
C13_SingleRecord ==
  (ret.kind = "state" /\ Len(ret.events) = 1) =>
     /\ ~ret.state.hasForks
     /\ ret.state.forks = <<>>
     /\ ret.state.latestEvent = ret.events[1]

C13_Witness ==
  /\ ret.kind = "state"
  /\ Len(ret.events) = 1
  /\ Len(ret.events[1].content.signatures) > 0
  /\ ~ret.state.hasForks
  /\ ret.state.latestEvent = ret.events[1]

\* C14: with the stored records unchanged, two calls of getContractState by
\* the same viewer return identical states: the stored records and the viewer
\* determine the state.
C14_ReductionDeterministic ==
  \A u \in Viewers : \A c \in ContractIds :
     \A st1, st2 \in getContractState(store, u, c) : st1 = st2

\* no stored record carries contract id c, in its contract tag or its content
NoRecordFor(c) == \A e \in store : e.tags.contract # c /\ e.content.contract_id # c

\* C15: getContractState for a contract id that no stored record carries
\* signals 'Contract not found' and returns no state.
C15_NotFound ==
  (ret.kind = "lookup" /\ NoRecordFor(ret.contract)) => ret.result = NotFound

C15_Witness ==
  /\ ret.kind = "lookup"
  /\ ret.by = "A"
  /\ store # {}
  /\ NoRecordFor(ret.contract)
  /\ ret.result = NotFound

\* C16: every signContract result with success = TRUE carries an event that
\* is stored, so signContract for a contract id without records never returns
\* success = TRUE with an event made up from nothing.
C16_NoFabricatedSuccess ==
  (ret.kind \in {"signed", "simulated"} /\ ret.success) =>
     /\ ret.newEvent \in store
     /\ \E e \in store : e.content.contract_id = ret.newEvent.content.contract_id
                         /\ e.content.content = ret.newEvent.content.content

\* the record's contract_id is the hash of its content text
HashOk(e) == e.content.contract_id = generateContractId(e.content.content)

\* C17: when the reduced records hold a record whose contract_id is the hash
\* of its content, no record whose contract_id is not that hash is the
\* latestEvent or the event of a fork.
C17_CorruptExcluded ==
  (ret.kind = "state" /\ \E i \in DOMAIN ret.events : HashOk(ret.events[i])) =>
     /\ HashOk(ret.state.latestEvent)
     /\ \A i \in DOMAIN ret.state.forks : HashOk(ret.state.forks[i].eventId)

Updates == {r \in prov : r.op = "update"}

\* C18: every record published by createContract, signContract, resolveForks
\* or updateContractContent carries the contract id that is the hash of its
\* own text
C18_PublishedHashMatches ==
  /\ \A e \in store : HashOk(e)
  /\ \A r \in prov : r.ev \in store /\ HashOk(r.ev)

\* an edit that changed the text, and so the contract id, has been published
C18_Witness ==
  \E r \in Updates :
    /\ r.ev.content.content # r.from.content.content
    /\ r.ev.content.contract_id # r.from.content.contract_id
    /\ \E q \in Signs \cup Merges : q.ev.content.contract_id = r.ev.content.contract_id

\* new is the payload old with one signature entry of u appended
SignFrame(old, new, u) ==
  /\ new.contract_id = old.contract_id
  /\ new.title = old.title
  /\ new.content = old.content
  /\ new.version = old.version
  /\ new.created_at = old.created_at
  /\ new.signers_required = old.signers_required
  /\ Len(new.signatures) = Len(old.signatures) + 1
  /\ new.signatures[Len(new.signatures)].pubkey = u
  /\ \A i \in DOMAIN old.signatures : new.signatures[i] = old.signatures[i]

\* C19: a successful signContract publishes a record authored by the signer
\* whose payload is the latest record's payload with exactly one signature
\* entry of the signer appended and every other field and entry unchanged
C19_SignFrame ==
  /\ \A r \in Signs :
       /\ r.from = r.seen.latestEvent
       /\ r.ev.pubkey = r.by
       /\ SignFrame(r.from.content, r.ev.content, r.by)
  /\ (ret # None /\ ret.kind = "signed") =>
       /\ ret.success
       /\ ret.newEvent.pubkey = ret.by
       /\ SignFrame(ret.seen.latestEvent.content, ret.newEvent.content, ret.by)

\* a signature was added, later than the payload's date, to a record that
\* already held another party's signature
C19_Witness ==
  \E r \in Signs :
    /\ Len(r.from.content.signatures) > 0
    /\ r.ev.created_at > r.from.content.created_at
    /\ ret # None /\ ret.kind = "signed" /\ ret.newEvent = r.ev

OncePerPubkey(sigs) ==
  \A i, j \in DOMAIN sigs : sigs[i].pubkey = sigs[j].pubkey => i = j

\* C20: in every record created, signed or merged, under any interleaving of
\* the calls, no pubkey occurs in more than one entry of the signature list
C20_OneSignaturePerIdentity ==
  /\ \A e \in store : OncePerPubkey(e.content.signatures)
  /\ \A p \in Actors : pend[p] # None => OncePerPubkey(pend[p].ev.content.signatures)

\* a merge of forks that share a signer was published, and a signer who had
\* signed one branch of a race signed the other branch as well
C20_Witness ==
  /\ \E m \in Merges :
       /\ m.ev \in store
       /\ Len(m.ev.content.signatures) >= 2
       /\ \E i, j \in DOMAIN m.from : i # j /\ SignerSet(m.from[i].signatures) \cap SignerSet(m.from[j].signatures) # {}
  /\ \E r \in Signs : Len(r.ev.content.signatures) >= 2

\* C21: resolveForks publishes a merged record only when it was called with
\* two forks or more; with fewer it fails and publishes nothing.
C21_MergeNeedsTwoForks ==
  /\ \A m \in Merges : Len(m.from) >= 2
  /\ \A p \in Actors : (pend[p] # None /\ pend[p].kind = "merge") => Len(pend[p].from) >= 2

PublishFailures ==
  {"Failed to publish contract", "Failed to publish signature",
   "Failed to publish merged event"}

\* the step ends p's signContract or resolveForks at its publish
PublishEnds(p) == pc[p] \in {"signPublish", "mergePublish"} /\ pc'[p] = "idle"

\* C22: a publish the relay rejects changes nothing: the call ends with
\* success = FALSE (an error for createContract and resolveForks), the log is
\* as before and nothing is left to publish again; success is reported only
\* for a record that is in the log.
C22_PublishFailureChangesNothing ==
  [][/\ \A p \in Actors : PublishEnds(p) =>
          /\ pend'[p] = None
          /\ store' \subseteq store \cup {pend[p].ev}
          /\ ret'.by = p
          /\ ret'.success => (pend[p].ev \in store' /\ ret'.newEvent = pend[p].ev)
          /\ ~ret'.success =>
               /\ store' = store /\ prov' = prov
               /\ ret'.kind = "error" /\ ret'.message \in PublishFailures
     /\ (ret' # ret /\ ret'.kind = "error" /\ ret'.message \in PublishFailures) =>
          /\ store' = store
          /\ prov' = prov
          /\ pc'[ret'.by] = "idle" /\ pend'[ret'.by] = None]_vars

\* a signContract or resolveForks call failed at the publish while the log
\* held signed records
C22_Witness ==
  /\ ret.kind = "error"
  /\ ret.message \in {"Failed to publish signature", "Failed to publish merged event"}
  /\ Signs # {}
  /\ pend[ret.by] = None

SameFingerprint(events) ==
  \A i, j \in DOMAIN events :
     SigPairs(events[i].content.signatures) = SigPairs(events[j].content.signatures)

\* C23: records of one contract whose signature lists hold the same
\* (pubkey, timestamp) pairs, in whatever order and whoever published them
\* and when, are one fingerprint group: a record set of such records alone
\* reduces to hasForks = FALSE without forks.
C23_RepublishesDoNotFork ==
  (ret.kind = "state" /\ SameFingerprint(ret.events)) =>
     /\ ~ret.state.hasForks
     /\ ret.state.forks = <<>>
     /\ detectForksOn(ret.events, ret.contract) = <<>>

\* two records with the same two signatures in different order, by different
\* authors at different times, were reduced
C23_Witness ==
  /\ ret.kind = "state"
  /\ SameFingerprint(ret.events)
  /\ ~ret.state.hasForks
  /\ \E i, j \in DOMAIN ret.events :
       /\ Len(ret.events[i].content.signatures) = 2
       /\ ret.events[i].content.signatures # ret.events[j].content.signatures
       /\ ret.events[i].pubkey # ret.events[j].pubkey
       /\ ret.events[i].created_at # ret.events[j].created_at

\* C24: after updateContractContent changed the text of an unsigned contract,
\* the state reduced for the contract id used before the edit holds the
\* edited record, and holds it as latest while no later record exists.
C24_EditKeepsLineage ==
  \A r \in Updates :
    (r.ev.content.content # r.from.content.content) =>
       \A u \in Viewers :
         \A st \in getContractState(store, u, r.from.content.contract_id) :
            /\ st # NotFound
            /\ r.ev \in Range(st.allEvents)
            /\ (\A e \in store : e.created_at <= r.ev.created_at) =>
                  st.latestEvent.content.content = r.ev.content.content

\* the stored records of contract c the relay returns to viewer u's filters
StoredFor(S, u, c) ==
  LET mine == {e \in UserEvents(S, u) : e.content.contract_id = c}
  IN IF u # NoKey /\ mine # {} THEN mine ELSE fetchByContractTag(S, c)

NewestFirst(events) ==
  \A i, j \in DOMAIN events : i < j => events[i].created_at >= events[j].created_at

\* C25: allEvents of the state getContractState returns holds every stored
\* record of the contract that the relay returns for the viewer, newest first.
C25_HistoryComplete ==
  \A u \in Viewers : \A c \in ContractIds :
    \A st \in getContractState(store, u, c) \ {NotFound} :
       /\ Range(st.allEvents) = StoredFor(store, u, c)
       /\ NewestFirst(st.allEvents)

\* the state processContractEvents and detectForks give for one delivery
ReducedFrom(events, u, c) == processContractEvents(events, detectForksOn(events, c), u)

\* C26: in a state without forks latestEvent has the greatest created_at, and
\* it is the same record in whatever order the relay delivered the records,
\* also when several records have that created_at.
C26_HeadIndependentOfOrder ==
  (ret.kind = "state" /\ ~ret.state.hasForks) =>
     /\ \A i \in DOMAIN ret.events :
           ret.events[i].created_at <= ret.state.latestEvent.created_at
     /\ \A events \in Perms(Range(ret.events)) :
           ReducedFrom(events, ret.by, ret.contract).latestEvent = ret.state.latestEvent

\* C27: whatever sequence of connectWithNsec, generateKeypair,
\* reAuthenticateWithNsec, connectWithNip07, loadAuthState and logout ran, the
\* persisted auth state holds the pubkey and the method and nothing else, in
\* particular no secret key; right after logout no auth state is persisted
\* and pubkey, nsec and nip07 are cleared.
C27_NsecConfined ==
  /\ auth.sessionStorage # NoAuthState =>
       /\ DOMAIN auth.sessionStorage = {"pubkey", "method"}
       /\ auth.sessionStorage.pubkey \in Pubkeys
       /\ auth.sessionStorage.method \in {"nip07", "nsec"}
       /\ \A f \in DOMAIN auth.sessionStorage : auth.sessionStorage[f] \notin SecretKeys
  /\ auth.last.op = "logout" =>
       /\ auth.sessionStorage = NoAuthState
       /\ auth.pubkey = Null /\ auth.nsec = Null /\ auth.nip07 = Null

\* the manager holds an nsec key for a session persisted after a reload
C27_Witness ==
  /\ auth.nsec \in SecretKeys
  /\ auth.sessionStorage # NoAuthState
  /\ auth.sessionStorage.pubkey = getPublicKey(auth.nsec)
  /\ auth.last.op = "reAuthenticateWithNsec" /\ auth.last.error = Null

\* C28: whenever canSign() is TRUE, signEvent does not fail for want of a
\* signing method or of the nsec key.
C28_CanSignSound ==
  (auth.last.op = "signEvent" /\ auth.last.canSign) =>
     auth.last.result \notin {"No signing method available",
                              "Your nsec key is not available"}

\* the edited record new built by u from the latest record old
UpdateFrame(old, new, u) ==
  /\ Len(old.content.signatures) = 0
  /\ old.pubkey = u
  /\ new.pubkey = u
  /\ new.content.signatures = <<>>
  /\ new.tags.p = old.tags.p
  /\ new.content.signers_required = old.content.signers_required
  /\ (new.content.content # old.content.content) =>
        /\ new.content.contract_id # old.content.contract_id
        /\ new.tags.contract # old.tags.contract

UpdateErrors ==
  {"Cannot edit a contract that already has signatures",
   "You can only edit contracts that you created"}

\* C29: updateContractContent publishes nothing and fails when the latest
\* record carries a signature or was not authored by the caller; otherwise
\* the record it publishes has no signatures, the p tags of the latest
\* record and, when the text changed, another contract_id.
C29_UpdateGuardsAndFrame ==
  /\ [](/\ \A r \in Updates : UpdateFrame(r.from, r.ev, r.by)
        /\ \A p \in Actors : (pend[p] # None /\ pend[p].kind = "update") =>
              UpdateFrame(pend[p].from, pend[p].ev, p))
  /\ [][\A p \in Actors :
          (pc[p] = "updateReduce" /\ pc'[p] # "updateReduce") =>
             LET latest == sortNewestFirst(evs[p])[1]
             IN IF Len(latest.content.signatures) > 0 \/ latest.pubkey # p
                THEN /\ pc'[p] = "idle"
                     /\ ret'.kind = "error" /\ ret'.by = p
                     /\ ret'.message \in UpdateErrors
                     /\ store' = store /\ prov' = prov
                     /\ pend'[p] = None
                ELSE /\ pc'[p] = "updatePublish"
                     /\ pend'[p].kind = "update"
                     /\ store' = store]_vars

\* an edit that changed the text was published, the edited contract was
\* signed, and a further edit was refused
C29_Witness ==
  /\ ret.kind = "error"
  /\ ret.message = "Cannot edit a contract that already has signatures"
  /\ \E r \in Updates :
       /\ r.ev.content.contract_id # r.from.content.contract_id
       /\ \E q \in Signs : q.from = r.ev

\* the stored records of contract c with the least created_at
Oldest(c) ==
  {e \in store : /\ e.content.contract_id = c
                 /\ \A f \in store : f.content.contract_id = c => e.created_at <= f.created_at}

\* C30: the record resolveForks publishes has the title, content,
\* contract_id, version, created_at and signers_required of the oldest record
\* of the contract; only its signature list is taken from the forks.
C30_MergeFromOldest ==
  \A m \in Merges :
    /\ \E e \in Oldest(m.ev.content.contract_id) :
          m.ev.content = [e.content EXCEPT !.signatures = m.ev.content.signatures]
    /\ \A i \in DOMAIN m.ev.content.signatures :
          \E k \in DOMAIN m.from :
             \E j \in DOMAIN m.from[k].signatures :
                m.from[k].signatures[j] = m.ev.content.signatures[i]

\* forks were merged for a contract that was edited after its creation, so
\* that its newest records carry another created_at than the oldest
C30_Witness ==
  \E m \in Merges :
    /\ m.ev.content.signatures # <<>>
    /\ \E e \in store :
         /\ e.content.contract_id = m.ev.content.contract_id
         /\ e.content.created_at # m.ev.content.created_at

PlacesOf(delivered, c) == {k \in DOMAIN delivered : delivered[k].tags.contract = c}

\* C32: fetchUserContracts returns one record for every contract id among
\* the fetched records and no more; it is a record of that contract with the
\* greatest created_at, and of several such the one received first.
C32_OnePerContract ==
  ret.kind = "userContracts" =>
    /\ \A i, j \in DOMAIN ret.result :
          ret.result[i].tags.contract = ret.result[j].tags.contract => i = j
    /\ \A k \in DOMAIN ret.delivered :
          \E i \in DOMAIN ret.result :
             ret.result[i].tags.contract = ret.delivered[k].tags.contract
    /\ \A i \in DOMAIN ret.result :
          \E k \in PlacesOf(ret.delivered, ret.result[i].tags.contract) :
             /\ ret.delivered[k] = ret.result[i]
             /\ \A l \in PlacesOf(ret.delivered, ret.result[i].tags.contract) :
                   /\ ret.delivered[l].created_at <= ret.delivered[k].created_at
                   /\ ret.delivered[l].created_at = ret.delivered[k].created_at => k <= l

\* two different records of one contract with the same created_at were
\* fetched and one record was returned
C32_Witness ==
  /\ ret.kind = "userContracts"
  /\ Len(ret.result) = 1
  /\ Len(ret.delivered) = 2
  /\ ret.delivered[1].created_at = ret.delivered[2].created_at
  /\ ret.result[1] = ret.delivered[1]

\* the state the detail page's getContractState returns on this step: reduced
\* from the events of its first fetch, with the forks it hands to the page
Consistent(allEvents, forks) ==
  /\ (Len(forks) > 1) = (Cardinality(Fingerprints(allEvents)) > 1)
  /\ \A i \in DOMAIN forks : forks[i].eventId \in Range(allEvents)

\* C33: every state getContractState returns has hasForks exactly when its
\* allEvents carry more than one signature fingerprint, and every Fork in its
\* forks is a record of its allEvents, also when another party publishes
\* while the reduction runs.
C33_SnapshotConsistent ==
  [][\A p \in Actors :
       (pc[p] = "viewReduce" /\ pc'[p] = "idle") =>
          Consistent(sortNewestFirst(evs[p]), view'[p])]_vars

\* two resolveForks calls by different parties on the same set of forks: calls
\* that both wait on their publish, and calls that both published
MergedTogether ==
  {pq \in {x \in Actors : pc[x] = "mergePublish"} \X {x \in Actors : pc[x] = "mergePublish"} :
     pq[1] # pq[2] /\ Range(pend[pq[1]].from) = Range(pend[pq[2]].from)}

MergedBoth ==
  {rr \in Merges \X Merges :
     rr[1].by # rr[2].by /\ Range(rr[1].from) = Range(rr[2].from)}

\* detectForks puts the two records in one signature group
OneGroup(e1, e2) ==
  /\ SigPairs(e1.content.signatures) = SigPairs(e2.content.signatures)
  /\ Len(MapValues(groupBySignatures(<<e1, e2>>, e1.tags.contract, <<>>))) = 1

\* C34: two parties that run resolveForks on the same set of forks, also at
\* the same time, build merged records with the same (pubkey, timestamp)
\* pairs, which fork detection puts in one signature group.
C34_MergesConverge ==
  /\ \A pq \in MergedTogether : OneGroup(pend[pq[1]].ev, pend[pq[2]].ev)
  /\ \A rr \in MergedBoth : OneGroup(rr[1].ev, rr[2].ev)

\* both parties published their merged record, built at the same time from
\* forks held in different orders in which a signer has two timestamps
C34_Witness ==
  \E rr \in MergedBoth :
     /\ rr[1].from # rr[2].from
     /\ rr[1].ev.created_at = rr[2].ev.created_at
     /\ {rr[1].ev, rr[2].ev} \subseteq store
     /\ \E i, j \in DOMAIN rr[1].from :
           \E a \in DOMAIN rr[1].from[i].signatures, b \in DOMAIN rr[1].from[j].signatures :
              /\ rr[1].from[i].signatures[a].pubkey = rr[1].from[j].signatures[b].pubkey
              /\ rr[1].from[i].signatures[a].timestamp # rr[1].from[j].signatures[b].timestamp

\* the records new and old name the same required signers and the same contract
SameSigners(old, new) ==
  /\ new.tags.p = old.tags.p
  /\ new.tags.contract = old.tags.contract

\* C35: a record built by signContract has the p tags and the contract tag of
\* the latest record it was built from, and a record built by resolveForks
\* those of the oldest record of the contract.
C35_SignersStable ==
  /\ [](\A r \in Signs : SameSigners(r.from, r.ev))
  /\ [][\A p \in Actors :
          /\ (pc[p] = "signReduce" /\ pc'[p] = "signPublish") =>
                SameSigners(sortNewestFirst(evs[p])[1], pend'[p].ev)
          /\ (pc[p] = "idle" /\ pc'[p] = "mergePublish") =>
                \E e \in Oldest(arg'[p]) : SameSigners(e, pend'[p].ev)]_vars

\* a party that is no required signer merged forks of a contract that a
\* required signer had signed, and the merged record was published
C35_Witness ==
  \E r \in Signs, m \in Merges :
    /\ m.by \notin m.ev.tags.p
    /\ r.by \in r.ev.tags.p
    /\ r.ev.pubkey # r.from.pubkey
    /\ m.ev.content.contract_id = r.ev.content.contract_id
    /\ {r.ev, m.ev} \subseteq store

\* the key string does not decode to a secret key of pubkey
Mismatch(nsec, pubkey) == ~validNsec(nsec) \/ getPublicKey(nsec.data) # pubkey

\* C36: reAuthenticateWithNsec fails when no pubkey is held or when the key
\* given does not derive the pubkey held, and then pubkey, nsec and nip07 are
\* as before; otherwise it succeeds, nsec is the key given and pubkey and
\* nip07 are as before.
C36_ReAuthenticate ==
  [][auth'.last.op = "reAuthenticateWithNsec" =>
       IF ~isAuthenticated(auth) \/ Mismatch(auth'.last.input, auth.pubkey)
       THEN /\ auth'.last.error # Null
            /\ auth'.pubkey = auth.pubkey
            /\ auth'.nsec = auth.nsec
            /\ auth'.nip07 = auth.nip07
       ELSE /\ auth'.last.error = Null
            /\ auth'.nsec = auth'.last.input.data
            /\ auth'.pubkey = auth.pubkey
            /\ auth'.nip07 = auth.nip07]_vars

\* an authenticated session was given the secret key of another pubkey and
\* the call failed
C36_Witness ==
  /\ auth.last.op = "reAuthenticateWithNsec"
  /\ auth.last.error # Null
  /\ isAuthenticated(auth)
  /\ validNsec(auth.last.input)
  /\ getPublicKey(auth.last.input.data) # auth.pubkey

\* C37: after any sequence of finished AuthManager calls, with no call and no
\* callback waiting, canSign() = true implies isAuthenticated() = true: no
\* signing capability is held without a pubkey.
C37_CanSignImpliesAuthenticated ==
  auth.awaiting = "none" => (canSign(auth) => isAuthenticated(auth))

\* verifyContract accepts the payload and computes the given isComplete
VerifiedAs(contract, isComplete) ==
  /\ verifyContract(contract).valid
  /\ verifyContract(contract).isComplete = isComplete

\* C38: for every record published through createContract, signContract and
\* resolveForks, and every state reduced from such records, the reducer's
\* isComplete equals the isComplete verifyContract computes for the payload.
C38_CompletionChecksAgree ==
  /\ \A e \in store : VerifiedAs(e.content, isCompleteOf(e.content))
  /\ \A u \in Viewers, c \in ContractIds :
        \A st \in getContractState(store, u, c) \ {NotFound} :
           VerifiedAs(st.latestEvent.content, st.isComplete)

\* a complete record was published by a merge and an incomplete one by a
\* signature
C38_Witness ==
  /\ \E m \in Merges : m.ev \in store /\ isCompleteOf(m.ev.content)
  /\ \E r \in Signs : r.ev \in store /\ ~isCompleteOf(r.ev.content)
  /\ \E r \in Signs : r.ev \in store /\ isCompleteOf(r.ev.content)

====
